---------------------------- MODULE Spec2Model ----------------------------
(***************************************************************************)
(* A model of stmpy/matio.py: the pymap record, its conversion from an NVL *)
(* record (nvl2pymap), to a .mat dictionary (pymap2mat, format_mat_struct, *)
(* format_mat_cell) and back (mat2pymap), and the file boundary (loadmat,  *)
(* savemat, nvl2mat).                                                      *)
(*                                                                         *)
(* Python and numpy values are tagged records:                             *)
(*   [t |-> "str", s]           a Python str                               *)
(*   [t |-> "np.str_", s]       a numpy string scalar                      *)
(*   [t |-> "float64", n]       a numpy number                             *)
(*   [t |-> "NoneType"]         None                                       *)
(*   [t |-> "recarray", ...]    a numpy record array                       *)
(*   [t |-> "ndarray", dtype, names, shape, data]                          *)
(*                              an array, data in row-major order          *)
(*   [t |-> "dict", ks, vs]     a dict, keys in insertion order            *)
(*   [t |-> "list", items]      a list                                     *)
(*   [t |-> "pymap", ks, vs]    a pymap object: vars(self) in order        *)
(***************************************************************************)
EXTENDS Integers, Sequences, FiniteSets, TLC

VARIABLES self, calls, mhh, q, matfile, ret, err, last

vars == <<self, calls, mhh, q, matfile, ret, err, last>>

(***************************************************************************)
(* Bounds of the model.                                                    *)
(***************************************************************************)
MaxDim == 2
MaxKeys == 2
MaxCalls == 2
MaxLen == 2
MaxVars == 2

(***************************************************************************)
(* Values.                                                                 *)
(***************************************************************************)
PyStr(s) == [t |-> "str", s |-> s]
NpStr(s) == [t |-> "np.str_", s |-> s]
F64(n) == [t |-> "float64", n |-> n]
PyNone == [t |-> "NoneType"]
PyList(items) == [t |-> "list", items |-> items]
PyDict(ks, vs) == [t |-> "dict", ks |-> ks, vs |-> vs]
NdArr(dtype, shape, data) ==
    [t |-> "ndarray", dtype |-> dtype, names |-> <<>>, shape |-> shape, data |-> data]
StructArr(names, shape, data) ==
    [t |-> "ndarray", dtype |-> "V", names |-> names, shape |-> shape, data |-> data]
Recarray(names, shape, data) ==
    [t |-> "recarray", dtype |-> "V", names |-> names, shape |-> shape, data |-> data]

\* The outcome of a call: the value it yields and the exception it raised.
Ok(v) == [v |-> v, err |-> "none"]
Raise(e, v) == [v |-> v, err |-> e]

RECURSIVE Prod(_)
Prod(sh) == IF sh = <<>> THEN 1 ELSE Head(sh) * Prod(Tail(sh))

\* Ordered mappings (dict, vars(self)): lookup and item assignment.
HasKey(o, k) == \E i \in 1..Len(o.ks) : o.ks[i] = k
KeyPos(o, k) == CHOOSE i \in 1..Len(o.ks) : o.ks[i] = k
GetItem(o, k) == o.vs[KeyPos(o, k)]
SetItem(o, k, v) ==
    IF HasKey(o, k)
    THEN [o EXCEPT !.vs[KeyPos(o, k)] = v]
    ELSE [o EXCEPT !.ks = Append(o.ks, k), !.vs = Append(o.vs, v)]

IsArray(x) == x.t \in {"ndarray", "recarray"}

\* np.copy(x) == np.array(x, copy=True): an array stays an array (a recarray
\* becomes a plain ndarray), every other object becomes a 0-d array.
NpCopy(x) ==
    CASE x.t = "ndarray" -> x
      [] x.t = "recarray" -> StructArr(x.names, x.shape, x.data)
      [] x.t \in {"str", "np.str_"} -> NdArr("U", <<>>, <<NpStr(x.s)>>)
      [] x.t = "float64" -> NdArr("f8", <<>>, <<x>>)
      [] OTHER -> NdArr("O", <<>>, <<x>>)

\* np.array([x]) for x a string scalar or a 0-d array: one more axis in front.
NpArray1(x) ==
    CASE x.t = "ndarray" -> [x EXCEPT !.shape = <<1>> \o x.shape]
      [] x.t \in {"str", "np.str_"} -> NdArr("U", <<1>>, <<NpStr(x.s)>>)
      [] x.t = "float64" -> NdArr("f8", <<1>>, <<x>>)
      [] OTHER -> NdArr("O", <<1>>, <<x>>)

\* x[0]: the first item along the first axis.
Index0(x) ==
    CASE IsArray(x) ->
           IF x.shape = <<>> \/ Head(x.shape) = 0
           THEN Raise("IndexError", PyNone)
           ELSE IF Len(x.shape) = 1
                THEN Ok(x.data[1])
                ELSE Ok([x EXCEPT !.t = "ndarray", !.shape = Tail(x.shape),
                                  !.data = SubSeq(x.data, 1, Prod(Tail(x.shape)))])
      [] x.t = "list" ->
           IF x.items = <<>> THEN Raise("IndexError", PyNone) ELSE Ok(x.items[1])
      [] x.t \in {"str", "np.str_"} -> Ok(PyStr(x.s))
      [] x.t = "dict" ->
           IF HasKey(x, "0") THEN Ok(GetItem(x, "0")) ELSE Raise("KeyError", PyNone)
      [] OTHER -> Raise("TypeError", PyNone)

\* The items a for loop over x visits, or the TypeError of a non-iterable.
Iterate(x) ==
    CASE IsArray(x) ->
           IF x.shape = <<>>
           THEN Raise("TypeError", <<>>)
           ELSE IF Len(x.shape) = 1
                THEN Ok(x.data)
                ELSE Ok([i \in 1..Head(x.shape) |->
                          [x EXCEPT !.t = "ndarray", !.shape = Tail(x.shape),
                             !.data = SubSeq(x.data, (i - 1) * Prod(Tail(x.shape)) + 1,
                                             i * Prod(Tail(x.shape)))]])
      [] x.t = "list" -> Ok(x.items)
      [] OTHER -> Raise("TypeError", <<>>)

\* Row-major offset of a multi-index (0-based) and back.
RECURSIVE Ravel(_, _)
Ravel(idx, sh) ==
    IF idx = <<>> THEN 0
    ELSE Head(idx) * Prod(Tail(sh)) + Ravel(Tail(idx), Tail(sh))

Unravel(off, sh) ==
    [k \in 1..Len(sh) |-> (off \div Prod(SubSeq(sh, k + 1, Len(sh)))) % sh[k]]

SwapIdx(s, a, b) ==
    [k \in 1..Len(s) |-> IF k = a + 1 THEN s[b + 1] ELSE IF k = b + 1 THEN s[a + 1] ELSE s[k]]

\* a[idx] for a full multi-index.
At(a, idx) == a.data[Ravel(idx, a.shape) + 1]

\* np.swapaxes(a, axis1, axis2).
swapaxes(a, axis1, axis2) ==
    IF ~IsArray(a) THEN Raise("AxisError", a)
    ELSE IF axis1 >= Len(a.shape) \/ axis2 >= Len(a.shape)
    THEN Raise("AxisError", a)
    ELSE LET sh == SwapIdx(a.shape, axis1, axis2)
         IN Ok([a EXCEPT !.shape = sh,
                  !.data = [p \in 1..Prod(sh) |->
                             At(a, SwapIdx(Unravel(p - 1, sh), axis1, axis2))]])

(***************************************************************************)
(* Struct and cell formatting.                                             *)
(***************************************************************************)
Void(vs) == [t |-> "void", vs |-> vs]

\* x[name] on a structured array: the object array of that field.
Field(x, name) ==
    IF IsArray(x) /\ x.dtype = "V" /\ \E i \in 1..Len(x.names) : x.names[i] = name
    THEN LET p == CHOOSE i \in 1..Len(x.names) : x.names[i] = name
         IN Ok(NdArr("O", x.shape, [i \in 1..Len(x.data) |-> x.data[i].vs[p]]))
    ELSE Raise("ValueError", PyNone)

\* A faulty field order: the keys taken in reverse.
StructFieldNamesReversed(matred) ==
    [i \in 1..Len(matred.ks) |-> matred.ks[Len(matred.ks) + 1 - i]]

\* Lines 172-175: one (name, object) field per key, in iteration order.
StructFieldNames(matred) == [i \in 1..Len(matred.ks) |-> matred.ks[i]]

\* Lines 183-184: the field holds the one-element list [np.copy(value)].
StructFieldValue(matred, ikey) == PyList(<<NpCopy(GetItem(matred, ikey))>>)

format_mat_struct(matred) ==
    LET dtype_ar == StructFieldNames(matred)
    IN StructArr(dtype_ar, <<1, 1>>,
                 <<Void([i \in 1..Len(dtype_ar) |-> StructFieldValue(matred, dtype_ar[i])])>>)

\* Lines 195-196: cell i holds np.array([np.copy(matred[i])]).
CellValue(matred, i) == NpArray1(NpCopy(matred.items[i]))

format_mat_cell(matred) ==
    LET sz == Len(matred.items)
    IN NdArr("O", <<1, sz>>, [i \in 1..sz |-> CellValue(matred, i)])

(***************************************************************************)
(* The pymap class.                                                        *)
(***************************************************************************)
\* pymap.__init__
FreshPymap == [t |-> "pymap", ks |-> <<"ops">>, vs |-> <<PyList(<<>>)>>]

\* A faulty add_op: self.ops = [new_op_string].
add_opAssign(obj, new_op_string) ==
    IF ~HasKey(obj, "ops") THEN Raise("AttributeError", obj)
    ELSE Ok(SetItem(obj, "ops", PyList(<<new_op_string>>)))

\* pymap.add_op: self.ops.append(new_op_string)
add_op(obj, new_op_string) ==
    IF ~HasKey(obj, "ops") THEN Raise("AttributeError", obj)
    ELSE IF GetItem(obj, "ops").t # "list" THEN Raise("AttributeError", obj)
    ELSE Ok(SetItem(obj, "ops",
                    PyList(Append(GetItem(obj, "ops").items, new_op_string))))

NoValue == PyStr("No value")
RecarrayDeleted == PyStr("Recarray deleted in NVL to MAT conversion")

\* A faulty reduction: the recarray branch left out.
ReduceValueNoneOnly(x) == IF x.t = "NoneType" THEN NoValue ELSE x

\* Lines 77-83: the value stored for one entry of info or header.
ReduceValue(x) ==
    IF x.t = "NoneType" THEN NoValue
    ELSE IF x.t = "recarray" THEN RecarrayDeleted
    ELSE x

\* Lines 72-84: nvlred, built key by key in the order of the source dict.
Reduce(d) == PyDict(d.ks, [i \in 1..Len(d.ks) |-> ReduceValue(d.vs[i])])

\* pymap.nvl2pymap up to line 87: every assignment before the name lookup.
Nvl2pymapHead(obj, nvl) ==
    LET s1 == SetItem(obj, "map", NpCopy(nvl.data))
        s2 == SetItem(s1, "en", NpCopy(nvl.en))
        s3 == SetItem(s2, "ave", NpCopy(nvl.averageSpectrum))
        r4 == add_op(s3, PyStr("nvl2pymap"))
    IN IF r4.err # "none" THEN r4
       ELSE LET s5 == SetItem(r4.v, "info", Reduce(nvl.info))
                s6 == SetItem(s5, "header", Reduce(nvl.header))
            IN Ok(SetItem(s6, "coord_type", PyStr("r")))

\* A faulty name lookup: info.get('FILENAME', 'No value').
Nvl2pymapNameDefault(obj) ==
    LET info == GetItem(obj, "info")
        name == IF HasKey(info, "FILENAME") THEN GetItem(info, "FILENAME") ELSE NoValue
    IN Ok(SetItem(SetItem(obj, "name", name), "var", name))

\* Lines 89-90: name is info['FILENAME'] (a KeyError without it), var is name.
Nvl2pymapName(obj) ==
    LET info == GetItem(obj, "info")
    IN IF ~HasKey(info, "FILENAME") THEN Raise("KeyError", obj)
       ELSE Ok(SetItem(SetItem(obj, "name", GetItem(info, "FILENAME")),
                       "var", GetItem(info, "FILENAME")))

nvl2pymap(obj, nvl) ==
    LET h == Nvl2pymapHead(obj, nvl)
    IN IF h.err # "none" THEN h ELSE Nvl2pymapName(h.v)

\* Lines 145-154: the key and the value pymap2mat stores for one attribute.
Pymap2matKey(key, obj) ==
    IF obj.t \notin {"np.str_", "dict", "list"} /\ key = "en" THEN "e" ELSE key

Pymap2matValue(key, obj) ==
    IF obj.t = "np.str_" THEN NpArray1(obj)
    ELSE IF obj.t = "dict" THEN format_mat_struct(obj)
    ELSE IF obj.t = "list" THEN format_mat_cell(obj)
    ELSE NpCopy(obj)

RECURSIVE Pymap2matLoop(_, _, _)
Pymap2matLoop(pydct, i, acc) ==
    IF i > Len(pydct.ks) THEN acc
    ELSE Pymap2matLoop(pydct, i + 1,
             SetItem(acc, Pymap2matKey(pydct.ks[i], pydct.vs[i]),
                     Pymap2matValue(pydct.ks[i], pydct.vs[i])))

pymap2mat(obj) == Pymap2matLoop(obj, 1, PyDict(<<>>, <<>>))

\* Line 110: x[ikey][0][0][0].
InfoValue(x, ikey) ==
    LET f == Field(x, ikey)
    IN IF f.err # "none" THEN f
       ELSE LET a == Index0(f.v)
            IN IF a.err # "none" THEN a
               ELSE LET b == Index0(a.v)
                    IN IF b.err # "none" THEN b ELSE Index0(b.v)

\* Lines 109-110: fill self.info from the declared sub-field names.
RECURSIVE Mat2pymapInfo(_, _, _)
Mat2pymapInfo(obj, x, i) ==
    IF i > Len(x.names) THEN Ok(obj)
    ELSE LET r == InfoValue(x, x.names[i])
         IN IF r.err # "none" THEN Raise(r.err, obj)
            ELSE Mat2pymapInfo(
                     SetItem(obj, "info", SetItem(GetItem(obj, "info"), x.names[i], r.v)),
                     x, i + 1)

\* Lines 114-115: append obj[0] for every entry of the cell row.
RECURSIVE Mat2pymapOps(_, _, _)
Mat2pymapOps(obj, items, i) ==
    IF i > Len(items) THEN Ok(obj)
    ELSE LET r == Index0(items[i])
         IN IF r.err # "none" THEN Raise(r.err, obj)
            ELSE Mat2pymapOps(
                     SetItem(obj, "ops", PyList(Append(GetItem(obj, "ops").items, r.v))),
                     items, i + 1)

\* Lines 103-119: the dispatch for one key of the target dict.
Mat2pymapField(obj, key, val) ==
    LET first == Index0(val)
    IN IF first.err # "none" THEN Raise(first.err, obj)
       ELSE IF first.v.t = "np.str_" THEN Ok(SetItem(obj, key, first.v))
       ELSE IF key = "info"
            THEN LET o1 == SetItem(obj, "info", PyDict(<<>>, <<>>))
                 IN IF ~IsArray(val) THEN Raise("AttributeError", o1)
                    ELSE IF val.dtype # "V" THEN Raise("TypeError", o1)
                    ELSE Mat2pymapInfo(o1, val, 1)
       ELSE IF key = "ops"
            THEN LET o1 == SetItem(obj, "ops", PyList(<<>>))
                     it == Iterate(first.v)
                 IN IF it.err # "none" THEN Raise(it.err, o1)
                    ELSE Mat2pymapOps(o1, it.v, 1)
       ELSE IF key = "e" THEN Ok(SetItem(obj, "en", val))
       ELSE Ok(SetItem(obj, key, val))

RECURSIVE Mat2pymapLoop(_, _, _)
Mat2pymapLoop(obj, d, i) ==
    IF i > Len(d.ks) THEN Ok(obj)
    ELSE LET r == Mat2pymapField(obj, d.ks[i], d.vs[i])
         IN IF r.err # "none" THEN r ELSE Mat2pymapLoop(r.v, d, i + 1)

\* A faulty permutation: the two swaps in the other order.
Mat2pymapSwapReversed(obj) ==
    IF ~HasKey(obj, "map") THEN Raise("AttributeError", obj)
    ELSE LET a == swapaxes(GetItem(obj, "map"), 0, 1)
         IN IF a.err # "none" THEN Raise(a.err, obj)
            ELSE LET b == swapaxes(a.v, 1, 2)
                 IN IF b.err # "none" THEN Raise(b.err, SetItem(obj, "map", a.v))
                    ELSE Ok(SetItem(obj, "map", b.v))

\* Lines 123-124: self.map = swapaxes(self.map, 1, 2), then swapaxes(.., 0, 1).
Mat2pymapSwap(obj) ==
    IF ~HasKey(obj, "map") THEN Raise("AttributeError", obj)
    ELSE LET a == swapaxes(GetItem(obj, "map"), 1, 2)
         IN IF a.err # "none" THEN Raise(a.err, obj)
            ELSE LET b == swapaxes(a.v, 0, 1)
                 IN IF b.err # "none" THEN Raise(b.err, SetItem(obj, "map", a.v))
                    ELSE Ok(SetItem(obj, "map", b.v))

mat2pymap(obj, d) ==
    LET r == Mat2pymapLoop(obj, d, 1)
    IN IF r.err # "none" THEN r ELSE Mat2pymapSwap(r.v)

(***************************************************************************)
(* The file boundary.  A variable name is the sequence of its characters.  *)
(***************************************************************************)
\* x.startswith('__')
StartsWithDunder(x) == Len(x) >= 2 /\ x[1] = "_" /\ x[2] = "_"

\* Line 30: mat_raw[key][0][0].
UnpackValue(mat_raw, key) ==
    LET f == Field(mat_raw, key)
    IN IF f.err # "none" THEN f
       ELSE LET a == Index0(f.v)
            IN IF a.err # "none" THEN a ELSE Index0(a.v)

RECURSIVE UnpackLoop(_, _, _)
UnpackLoop(mat_raw, i, mat) ==
    IF i > Len(mat_raw.names) THEN Ok(mat)
    ELSE LET r == UnpackValue(mat_raw, mat_raw.names[i])
         IN IF r.err # "none" THEN Raise(r.err, mat)
            ELSE UnpackLoop(mat_raw, i + 1, SetItem(mat, mat_raw.names[i], r.v))

\* Lines 27-33: the unpacked dict, or the raw value when anything is raised.
Unpack(mat_raw) ==
    LET r == IF ~IsArray(mat_raw) THEN Raise("AttributeError", PyNone)
             ELSE IF mat_raw.dtype # "V" THEN Raise("TypeError", PyNone)
             ELSE UnpackLoop(mat_raw, 1, PyDict(<<>>, <<>>))
    IN IF r.err # "none" THEN mat_raw ELSE r.v

\* A faulty prefix test: x.startswith('_').
ImportedOneUnderscore(x) == ~(Len(x) >= 1 /\ x[1] = "_")

\* Line 24: whether the variable is imported.
Imported(x) == ~StartsWithDunder(x)

RECURSIVE LoadmatLoop(_, _, _)
LoadmatLoop(fileObject, i, data) ==
    IF i > Len(fileObject.ks) THEN data
    ELSE LoadmatLoop(fileObject, i + 1,
             IF Imported(fileObject.ks[i])
             THEN SetItem(data, fileObject.ks[i], Unpack(fileObject.vs[i]))
             ELSE data)

loadmat(fileObject) == LoadmatLoop(fileObject, 1, PyDict(<<>>, <<>>))

(***************************************************************************)
(* Inputs.                                                                 *)
(***************************************************************************)
\* An array whose elements are all different, numbered in row-major order.
Arange(shape, base) == NdArr("f8", shape, [p \in 1..Prod(shape) |-> F64(base + p)])

StrArr(s) == NdArr("U", <<1>>, <<NpStr(s)>>)
ARecarray == Recarray(<<"x">>, <<1>>, <<Void(<<F64(7)>>)>>)

\* Source records as stmpy.load yields them.
NvlRecord(shape, info, header) ==
    [data |-> Arange(shape, 0), en |-> Arange(<<shape[1]>>, 100),
     averageSpectrum |-> Arange(<<shape[1]>>, 200), info |-> info, header |-> header]

\* The source records of the main specification.
InfoMaps ==
    { PyDict(<<>>, <<>>),
      PyDict(<<"FILENAME">>, <<PyStr("f.NVL")>>),
      PyDict(<<"DATE", "FILENAME">>, <<PyNone, NpStr("g.NVL")>>) }
AHeader == PyDict(<<"BIAS", "DATE">>, <<ARecarray, PyNone>>)

NvlRecords ==
    {NvlRecord(sh, i, AHeader) : sh \in {<<1, 2, 2>>, <<2, 1, 1>>}, i \in InfoMaps}

\* Target dicts as the loader yields them for an STM_View structure.
FullDict(shape) ==
    PyDict(<<"map", "e", "name", "info", "ops">>,
           <<Arange(shape, 0), Arange(<<1, shape[3]>>, 100), StrArr("f.NVL"),
             StructArr(<<"FILENAME">>, <<1, 1>>, <<Void(<<StrArr("f.NVL")>>)>>),
             NdArr("O", <<1, 1>>, <<StrArr("load")>>)>>)
MapDict(shape) == PyDict(<<"map">>, <<Arange(shape, 0)>>)

\* The target dicts of the main specification.
TargetDicts ==
    { MapDict(<<1, 2, 2>>), FullDict(<<2, 1, 2>>),
      PyDict(<<"e">>, <<Arange(<<1, 2>>, 100)>>),
      PyDict(<<"ops", "map">>, <<NdArr("O", <<1, 0>>, <<>>), Arange(<<2, 2>>, 0)>>) }

OpStrings == {PyStr("x")}

(***************************************************************************)
(* The state machine.  self is the pymap the caller holds, calls the       *)
(* number of calls that changed it since it was made, mhh the dict         *)
(* pymap2mat last returned, q the outcome of the last round trip, matfile  *)
(* the target file (the variable names sio.savemat wrote), ret the value   *)
(* the last formatter or loader call returned, err the exception the last  *)
(* call raised, last the last call and its argument.                       *)
(***************************************************************************)
NoFile == [exists |-> FALSE, names |-> <<>>]
Written(d) == [exists |-> TRUE, names |-> d.ks]

Init ==
    /\ self = FreshPymap
    /\ calls = 0
    /\ mhh = PyNone
    /\ q = Ok(PyNone)
    /\ matfile = NoFile
    /\ ret = PyNone
    /\ err = "none"
    /\ last = [op |-> "init"]

\* pymap()
NewPymap ==
    /\ self' = FreshPymap
    /\ calls' = 0
    /\ err' = "none"
    /\ last' = [op |-> "pymap"]
    /\ mhh' = PyNone
    /\ q' = Ok(PyNone)
    /\ UNCHANGED <<matfile, ret>>

\* self.nvl2pymap(nvl)
Nvl2pymapOp ==
    \E nvl \in NvlRecords :
        LET r == nvl2pymap(self, nvl)
        IN /\ calls < MaxCalls
           /\ calls' = calls + 1
           /\ self' = r.v
           /\ err' = r.err
           /\ last' = [op |-> "nvl2pymap", arg |-> nvl]
           /\ mhh' = PyNone
           /\ q' = Ok(PyNone)
           /\ UNCHANGED <<matfile, ret>>

\* self.add_op(new_op_string)
AddOpOp ==
    \E new_op_string \in OpStrings :
        LET r == add_op(self, new_op_string)
        IN /\ calls < MaxCalls
           /\ calls' = calls + 1
           /\ self' = r.v
           /\ err' = r.err
           /\ last' = [op |-> "add_op", arg |-> new_op_string]
           /\ mhh' = PyNone
           /\ q' = Ok(PyNone)
           /\ UNCHANGED <<matfile, ret>>

\* self.mat2pymap(d), d from a loader or from pymap2mat
Mat2pymapOp ==
    \E d \in TargetDicts \cup (IF mhh.t = "dict" THEN {mhh} ELSE {}) :
        LET r == mat2pymap(self, d)
        IN /\ calls < MaxCalls
           /\ calls' = calls + 1
           /\ self' = r.v
           /\ err' = r.err
           /\ last' = [op |-> "mat2pymap", arg |-> d]
           /\ mhh' = PyNone
           /\ q' = Ok(PyNone)
           /\ UNCHANGED <<matfile, ret>>

\* mhh = self.pymap2mat()
Pymap2matOp ==
    /\ mhh' = pymap2mat(self)
    /\ err' = "none"
    /\ last' = [op |-> "pymap2mat"]
    /\ q' = Ok(PyNone)
    /\ UNCHANGED <<self, calls, matfile, ret>>

\* self.savemat(filename): sio.savemat(filename, self.pymap2mat())
savemat(obj) == Written(pymap2mat(obj))

SavematOp ==
    /\ matfile' = savemat(self)
    /\ err' = "none"
    /\ last' = [op |-> "savemat"]
    /\ mhh' = PyNone
    /\ q' = Ok(PyNone)
    /\ UNCHANGED <<self, calls, ret>>

\* The outcome of nvl2mat: the pymap it returns, the exception, the file.
nvl2mat(nvl, file) ==
    LET pymap_dat == nvl2pymap(FreshPymap, nvl)
    IN IF pymap_dat.err # "none"
       THEN [v |-> PyNone, err |-> pymap_dat.err, file |-> file]
       ELSE [v |-> pymap_dat.v, err |-> "none", file |-> savemat(pymap_dat.v)]

\* nvl2mat(nvlfile, matfile), the returned pymap not kept
Nvl2matOp ==
    \E nvl \in NvlRecords :
        LET r == nvl2mat(nvl, matfile)
        IN /\ ret' = r.v
           /\ err' = r.err
           /\ matfile' = r.file
           /\ last' = [op |-> "nvl2mat", arg |-> nvl]
           /\ mhh' = PyNone
           /\ q' = Ok(PyNone)
           /\ UNCHANGED <<self, calls>>

\* q = pymap().mat2pymap(self.pymap2mat())
RoundTrip ==
    /\ q' = mat2pymap(FreshPymap, pymap2mat(self))
    /\ err' = q'.err
    /\ last' = [op |-> "roundtrip"]
    /\ mhh' = PyNone
    /\ UNCHANGED <<self, calls, matfile, ret>>

Next ==
    \/ NewPymap
    \/ Nvl2pymapOp
    \/ AddOpOp
    \/ Mat2pymapOp
    \/ Pymap2matOp
    \/ SavematOp
    \/ RoundTrip

Spec == Init /\ [][Next]_vars

\* The file boundary: conversions of source records and the target file.
NextFile ==
    \/ NewPymap
    \/ Nvl2pymapOp
    \/ SavematOp
    \/ Nvl2matOp

SpecFile == Init /\ [][NextFile]_vars

(***************************************************************************)
(* Single calls on wide inputs: one conversion of a new pymap, as in the   *)
(* docstrings of nvl2pymap and mat2pymap, and one call of a formatter or   *)
(* of the loader, each made from the initial state.                        *)
(***************************************************************************)
KeyPool == {"FILENAME", "DATE", "BIAS"}
ValuePool == {PyNone, ARecarray, PyStr("f.NVL"), NpStr("g.NVL")}

Injective(f) == \A i, j \in DOMAIN f : f[i] = f[j] => i = j
SeqsUpTo(S, n) == UNION {[1..m -> S] : m \in 0..n}

\* Every dict of at most MaxKeys entries.
Mappings ==
    UNION {{PyDict(ks, vs) : vs \in [1..Len(ks) -> ValuePool]} :
             ks \in {k \in SeqsUpTo(KeyPool, MaxKeys) : Injective(k)}}

WideNvlRecords ==
    {NvlRecord(<<1, 1, 1>>, i, h) :
       <<i, h>> \in {p \in Mappings \X Mappings : Len(p[1].ks) <= 1 \/ Len(p[2].ks) <= 1}}

\* Every list of at most MaxLen operation names.
OpLists ==
    {PyList(l) : l \in SeqsUpTo({PyStr("nvl2pymap"), NpStr("load"), PyStr("x")}, MaxLen)}

\* Target dicts with a map of every shape up to MaxDim, also with an empty
\* axis, alone, with the other loader fields, or with a 0-d string field.
Extents == 0..MaxDim
WideShapes == {<<a, b, c>> : a \in Extents, b \in Extents, c \in Extents}
WideTargetDicts ==
    {MapDict(sh) : sh \in WideShapes}
    \cup {FullDict(sh) : sh \in WideShapes}
    \cup {PyDict(<<"map", "coord_type">>, <<Arange(sh, 0), NpCopy(PyStr("r"))>>) :
            sh \in WideShapes}

\* Container files as sio.loadmat reads them: at most MaxVars variables.
NamePool ==
    { <<"_", "_", "h">>, <<"_", "_">>, <<"_", "x">>, <<"t">>, <<"a", "_", "_">> }
RawPool ==
    { Arange(<<1, 3>>, 0),
      StructArr(<<"a", "b">>, <<1, 1>>, <<Void(<<StrArr("s"), Arange(<<1, 1>>, 5)>>)>>),
      StructArr(<<"a">>, <<1, 0>>, <<>>) }
MatFiles ==
    UNION {{PyDict(ks, vs) : vs \in [1..Len(ks) -> RawPool]} :
             ks \in {k \in SeqsUpTo(NamePool, MaxVars) : Injective(k)}}

\* pymap().nvl2pymap(nvl)
CallNvl2pymap ==
    /\ last.op = "init"
    /\ \E nvl \in WideNvlRecords :
           LET r == nvl2pymap(FreshPymap, nvl)
           IN /\ self' = r.v
              /\ calls' = 1
              /\ err' = r.err
              /\ last' = [op |-> "nvl2pymap", arg |-> nvl]
              /\ ret' = PyNone
              /\ UNCHANGED <<mhh, q, matfile>>

\* pymap().mat2pymap(d)
CallMat2pymap ==
    /\ last.op = "init"
    /\ \E d \in WideTargetDicts :
           LET r == mat2pymap(FreshPymap, d)
           IN /\ self' = r.v
              /\ calls' = 1
              /\ err' = r.err
              /\ last' = [op |-> "mat2pymap", arg |-> d]
              /\ ret' = PyNone
              /\ UNCHANGED <<mhh, q, matfile>>

\* format_mat_struct(matred)
CallFormatStruct ==
    /\ last.op = "init"
    /\ \E matred \in Mappings :
           /\ ret' = format_mat_struct(matred)
           /\ err' = "none"
           /\ last' = [op |-> "format_mat_struct", arg |-> matred]
           /\ UNCHANGED <<self, calls, mhh, q, matfile>>

\* format_mat_cell(matred)
CallFormatCell ==
    /\ last.op = "init"
    /\ \E matred \in OpLists :
           /\ ret' = format_mat_cell(matred)
           /\ err' = "none"
           /\ last' = [op |-> "format_mat_cell", arg |-> matred]
           /\ UNCHANGED <<self, calls, mhh, q, matfile>>

\* loadmat(filePath)
CallLoadmat ==
    /\ last.op = "init"
    /\ \E fileObject \in MatFiles :
           /\ ret' = loadmat(fileObject)
           /\ err' = "none"
           /\ last' = [op |-> "loadmat", arg |-> fileObject]
           /\ UNCHANGED <<self, calls, mhh, q, matfile>>

NextCall ==
    \/ CallNvl2pymap
    \/ CallMat2pymap
    \/ CallFormatStruct
    \/ CallFormatCell
    \/ CallLoadmat

SpecCall == Init /\ [][NextCall]_vars

(***************************************************************************)
(* Properties.                                                             *)
(***************************************************************************)
Ops(obj) == GetItem(obj, "ops").items
IsPrefix(a, b) == Len(a) <= Len(b) /\ SubSeq(b, 1, Len(a)) = a
Values(d) == {d.vs[i] : i \in 1..Len(d.ks)}

\* The text of a string-valued object: a str, a numpy string, or an array
\* holding one string.
IsStringValued(x) ==
    \/ x.t \in {"str", "np.str_"}
    \/ x.t = "ndarray" /\ x.dtype = "U" /\ Len(x.data) = 1
TextOf(x) == IF x.t = "ndarray" THEN x.data[1].s ELSE x.s

\* C1: for P the result of nvl2pymap on a source record with FILENAME, the
\* round trip Q = pymap().mat2pymap(P.pymap2mat()) returns a record with the
\* same map, en and ave, and with the same text in every string-valued info
\* field.
C1_RoundTripIdentity ==
    [][(last.op = "nvl2pymap" /\ err = "none" /\ last'.op = "roundtrip")
        => /\ q'.err = "none"
           /\ HasKey(q'.v, "map") /\ GetItem(q'.v, "map") = GetItem(self, "map")
           /\ HasKey(q'.v, "en") /\ GetItem(q'.v, "en") = GetItem(self, "en")
           /\ HasKey(q'.v, "ave") /\ GetItem(q'.v, "ave") = GetItem(self, "ave")
           /\ HasKey(q'.v, "info")
           /\ \A i \in 1..Len(GetItem(self, "info").ks) :
                LET k == GetItem(self, "info").ks[i]
                    v == GetItem(self, "info").vs[i]
                IN (IsStringValued(v) /\ v \notin {NoValue, RecarrayDeleted})
                     => /\ HasKey(GetItem(q'.v, "info"), k)
                        /\ IsStringValued(GetItem(GetItem(q'.v, "info"), k))
                        /\ TextOf(GetItem(GetItem(q'.v, "info"), k)) = TextOf(v)]_vars

\* C2: on a source record whose info has no FILENAME, nvl2pymap raises the
\* KeyError of the missing filename, and nvl2mat raises it too, returns no
\* record and leaves the target file as it was.
C2_MissingFilenameFails ==
    [][(last'.op \in {"nvl2pymap", "nvl2mat"} /\ ~HasKey(last'.arg.info, "FILENAME"))
        => /\ err' = "KeyError"
           /\ last'.op = "nvl2mat" => (matfile' = matfile /\ ret' = PyNone)]_vars

C2_Witness ==
    /\ last.op = "nvl2mat"
    /\ ~HasKey(last.arg.info, "FILENAME")
    /\ err = "KeyError"
    /\ matfile = NoFile

\* C3: when nvl2pymap fails for the missing FILENAME, the pymap it was
\* called on is as it was before the call.
C3_NoPartialRecord ==
    [][(last'.op = "nvl2pymap" /\ err' = "KeyError") => self' = self]_vars

\* C4: when nvl2pymap returns, ops is the ops list of before the call with
\* the one entry 'nvl2pymap' appended.
C4_OpsGrowsByOne ==
    [][(last'.op = "nvl2pymap" /\ err' = "none" /\ GetItem(self, "ops").t = "list")
        => /\ GetItem(self', "ops").t = "list"
           /\ Len(Ops(self')) = Len(Ops(self)) + 1
           /\ SubSeq(Ops(self'), 1, Len(Ops(self))) = Ops(self)
           /\ Ops(self')[Len(Ops(self'))] = PyStr("nvl2pymap")]_vars

C4_Witness ==
    /\ last.op = "nvl2pymap"
    /\ err = "none"
    /\ Len(Ops(self)) >= 2

\* C5: nvl2pymap stores for info and for header a dict with the keys of the
\* source dict in which None is replaced by 'No value', a recarray by
\* 'Recarray deleted in NVL to MAT conversion', every other value kept; the
\* only error the call can end in is the missing FILENAME, after both dicts
\* are stored.
C5_CoercionTotal ==
    last.op = "nvl2pymap" =>
        /\ err \in {"none", "KeyError"}
        /\ \A key \in {"info", "header"} :
             /\ HasKey(self, key)
             /\ GetItem(self, key).t = "dict"
             /\ GetItem(self, key).ks = last.arg[key].ks
             /\ \A i \in 1..Len(last.arg[key].ks) :
                  LET x == last.arg[key].vs[i]
                      y == GetItem(self, key).vs[i]
                  IN /\ y.t \notin {"NoneType", "recarray"}
                     /\ x.t = "NoneType" => y = PyStr("No value")
                     /\ x.t = "recarray"
                          => y = PyStr("Recarray deleted in NVL to MAT conversion")
                     /\ x.t \notin {"NoneType", "recarray"} => y = x

C5_Witness ==
    /\ last.op = "nvl2pymap"
    /\ PyNone \in Values(last.arg.info)
    /\ ARecarray \in Values(last.arg.info)
    /\ ARecarray \in Values(last.arg.header)
    /\ NoValue \in Values(GetItem(self, "info"))
    /\ RecarrayDeleted \in Values(GetItem(self, "header"))

IsCopyOf(c, v) ==
    /\ c.t = "ndarray"
    /\ CASE v.t \in {"str", "np.str_"} ->
              c.dtype = "U" /\ Len(c.data) = 1 /\ c.data[1].s = v.s
         [] v.t \in {"ndarray", "recarray"} ->
              c.dtype = v.dtype /\ c.names = v.names /\ c.data = v.data
         [] OTHER -> c.dtype = "O" /\ c.data = <<v>>

\* C7: the keys of the mapping loadmat returns are the stored variable
\* names that do not begin with '__', each once; a variable that unpacks is
\* the dict of its sub-fields, every other one is its raw value unchanged.
C7_ReservedPrefixSkip ==
    last.op = "loadmat" =>
        LET kept == {i \in 1..Len(last.arg.ks) :
                       ~(/\ Len(last.arg.ks[i]) >= 2
                         /\ last.arg.ks[i][1] = "_"
                         /\ last.arg.ks[i][2] = "_")}
        IN /\ ret.t = "dict"
           /\ {ret.ks[n] : n \in 1..Len(ret.ks)} = {last.arg.ks[i] : i \in kept}
           /\ Len(ret.ks) = Cardinality(kept)
           /\ \A i \in kept :
                LET raw == last.arg.vs[i]
                    got == GetItem(ret, last.arg.ks[i])
                IN IF raw.dtype = "V" /\ raw.shape = <<1, 1>>
                   THEN /\ got.t = "dict"
                        /\ got.ks = raw.names
                        /\ got.vs = raw.data[1].vs
                   ELSE got = raw

C7_Witness ==
    /\ last.op = "loadmat"
    /\ last.arg.ks = << <<"_", "_", "h">>, <<"t">> >>
    /\ last.arg.vs[2] = StructArr(<<"a">>, <<1, 0>>, <<>>)
    /\ ret.ks = << <<"t">> >>
    /\ ret.vs = <<last.arg.vs[2]>>

\* C8: format_mat_struct(M) is a 1x1 structure whose field names are the
\* keys of M in order, each field holding the one-element list of a copy of
\* M's value; format_mat_cell(S) is a 1xlen(S) cell array whose i-th cell
\* holds a copy of S[i].
C8_OrderPreserved ==
    /\ last.op = "format_mat_struct" =>
         /\ ret.t = "ndarray" /\ ret.dtype = "V" /\ ret.shape = <<1, 1>>
         /\ ret.names = last.arg.ks
         /\ Len(ret.data) = 1 /\ Len(ret.data[1].vs) = Len(last.arg.ks)
         /\ \A i \in 1..Len(last.arg.ks) :
              /\ ret.data[1].vs[i].t = "list"
              /\ Len(ret.data[1].vs[i].items) = 1
              /\ IsCopyOf(ret.data[1].vs[i].items[1], last.arg.vs[i])
    /\ last.op = "format_mat_cell" =>
         /\ ret.t = "ndarray" /\ ret.dtype = "O"
         /\ ret.shape = <<1, Len(last.arg.items)>>
         /\ Len(ret.data) = Len(last.arg.items)
         /\ \A i \in 1..Len(last.arg.items) : IsCopyOf(ret.data[i], last.arg.items[i])

C8_Witness ==
    /\ last.op = "format_mat_struct"
    /\ last.arg.ks = <<"FILENAME", "BIAS">>
    /\ last.arg.vs = <<PyStr("f.NVL"), PyNone>>
    /\ ret.names = <<"FILENAME", "BIAS">>
    /\ ret.data[1].vs[1].items[1].data[1].s = "f.NVL"

\* C9: on one pymap, the ops list before a call is a prefix of the ops list
\* after it, and each transform that returns (nvl2pymap, mat2pymap) has
\* lengthened ops by the one entry naming it.
C9_OpsAppendOnly ==
    [][(last'.op # "pymap" /\ GetItem(self, "ops").t = "list")
        => /\ GetItem(self', "ops").t = "list"
           /\ IsPrefix(Ops(self), Ops(self'))
           /\ (last'.op \in {"nvl2pymap", "mat2pymap"} /\ err' = "none")
                => /\ Len(Ops(self')) = Len(Ops(self)) + 1
                   /\ TextOf(Ops(self')[Len(Ops(self'))]) = last'.op]_vars

\* C10: for a record that has the fields name and coord_type nvl2pymap
\* sets, the dict pymap2mat returns has one entry per field of the record:
\* a string-valued field as a one-string array, a dict as a 1x1 structure,
\* a list as a 1xN cell array, en under the key 'e' with no key 'en', every
\* other field under its own name as a copy of the array.
C10_SerializationDispatch ==
    (last.op = "pymap2mat" /\ HasKey(self, "name") /\ HasKey(self, "coord_type")) =>
        /\ mhh.t = "dict"
        /\ Len(mhh.ks) = Len(self.ks)
        /\ ~HasKey(mhh, "en")
        /\ \A i \in 1..Len(self.ks) :
             LET obj == self.vs[i]
                 key == IF self.ks[i] = "en" THEN "e" ELSE self.ks[i]
             IN /\ HasKey(mhh, key)
                /\ LET out == GetItem(mhh, key)
                   IN CASE obj.t \in {"str", "np.str_"} ->
                             out = NdArr("U", <<1>>, <<NpStr(obj.s)>>)
                        [] obj.t = "dict" ->
                             out.dtype = "V" /\ out.shape = <<1, 1>> /\ out.names = obj.ks
                        [] obj.t = "list" ->
                             out.dtype = "O" /\ out.shape = <<1, Len(obj.items)>>
                        [] OTHER -> out = obj

=============================================================================
